---- MODULE Spec2Model ----
(***************************************************************************)
(* Book API (FastAPI + SQLAlchemy on PostgreSQL): the request handlers of  *)
(* routers/books.py, the access gate of dependencies.py, the validation of *)
(* schemas.py and the books table of models.py, as a state machine.        *)
(*                                                                         *)
(* Every request runs in its own session (database.py get_db) and every    *)
(* SQL statement a handler issues is one step, so requests interleave      *)
(* between statements.  The store is PostgreSQL (database.py:15,19):       *)
(* a statement reads committed rows plus the rows of its own transaction,  *)
(* the unique index on title makes a writer wait for an uncommitted        *)
(* holder of the same title and fail against a committed one, and the id   *)
(* sequence never hands a value out twice.                                 *)
(***************************************************************************)
EXTENDS Integers, Sequences, FiniteSets, TLC

VARIABLES
    books,      \* committed rows of table books
    nextId,     \* next value of the id sequence (books_id_seq)
    pending,    \* per session: the row inserted by flush() and not yet committed
    pc,         \* per request slot: position in its handler
    req,        \* per request slot: the request being served
    book,       \* per session: the ORM object loaded or created by the handler
    resp        \* per request slot: the response of the finished request

vars == <<books, nextId, pending, pc, req, book, resp>>

----------------------------------------------------------------------------
(* Bounds of the model.                                                    *)

\* The id sequence is cut off after MaxId inserts.
MaxId == 2

\* Request slots: as many requests are in flight at once.
Procs == 1..2

----------------------------------------------------------------------------
(* Values.                                                                 *)

\* Python None / SQL NULL for a scalar; an Optional[str] title or filter is
\* a set, {} for None and {t} for the string t (a title is a sequence of
\* characters).
NULL == "NULL"
None == {}
Some(x) == {x}
Val(o) == CHOOSE x \in o : TRUE

\* config.py: Settings.api_key
ApiKey == "secret-key"
Keys == {ApiKey, "wrong-key", NULL}

\* schemas.py: Field(..., min_length=1, max_length=200)
MinTitleLen == 1
MaxTitleLen == 200

\* routers/books.py get_books: Query(0, ge=0), Query(10, ge=1, le=100)
MinSkip == 0
MinLimit == 1
MaxLimit == 100

Rep(c, n) == [i \in 1..n |-> c]

TitleA == <<"A">>
TitleB == <<"a", "b">>
Blank == <<" ">>
Empty == <<>>
Long200 == Rep("x", MaxTitleLen)
Long201 == Rep("x", MaxTitleLen + 1)
PadLong == <<" ">> \o Long200

\* Titles of the concurrent runs; titles of the validation runs.
Titles == {TitleA, TitleB}
AllTitles == {Empty, Blank, TitleA, Long200, Long201, PadLong}

\* Descriptions of the concurrent runs; of the single-slot runs; of updates.
Descriptions == {"d"}
AllDescriptions == {NULL, "d"}
NewDescriptions == {NULL, "e"}
Ids == 1..MaxId

NoReq ==
    [op |-> "none", key |-> NULL, id |-> 0, title |-> None, description |-> NULL,
     new_title |-> None, skip |-> 0, limit |-> 0, filter |-> None]

NoResp == [status |-> 0, body |-> NULL]

NoBook == [id |-> 0]

Request(op, key) == [NoReq EXCEPT !.op = op, !.key = key]

----------------------------------------------------------------------------
(* schemas.py, dependencies.py: what is decided before a handler runs.      *)

\* Variant of KeyOk: only a key that is present is compared.
KeyOkIfPresent(k) == k = ApiKey \/ k = NULL

\* dependencies.py verify_api_key: the request passes the gate.
KeyOk(k) == k = ApiKey

\* Variant of ValidTitle: min_length dropped.
ValidTitleNoMin(t) == Len(t) <= MaxTitleLen

\* schemas.py BookBase.title / BookUpdate.title: min_length=1, max_length=200
\* on the string as sent (pydantic strips nothing).
ValidTitle(t) == Len(t) >= MinTitleLen /\ Len(t) <= MaxTitleLen

\* get_books: skip >= 0, 1 <= limit <= 100.
ValidPage(skip, limit) == skip >= MinSkip /\ limit >= MinLimit /\ limit <= MaxLimit

----------------------------------------------------------------------------
(* models.py, database.py: the books table as the sessions see it.         *)

Row(i, t, d, ts) == [id |-> i, title |-> t, description |-> d, created_at |-> ts]

\* The committed rows.
Stored == books

\* Variant of Visible: the rows of every open transaction are read too.
VisibleDirty(p) == books \cup {pending[q] : q \in {x \in Procs : pending[x] # NoBook}}

\* What a statement of session p reads: the committed rows and the row of
\* its own open transaction (PostgreSQL has no dirty reads).
Visible(p) == Stored \cup {pending[q] : q \in {x \in Procs : x = p /\ pending[x] # NoBook}}

\* db.query(Book).filter(Book.id == i).first(): a set with at most one row.
FindById(p, i) == {r \in Visible(p) : r.id = i}

\* db.query(Book).filter(Book.title == t).first(): exact, case-sensitive.
FindByTitle(p, t) == {r \in Visible(p) : r.title = t}

\* Variant of UniqueViolation: the column has no unique index.
UniqueViolationOff(t, i) == FALSE

\* models.py title unique=True: a committed row other than i holds title t.
UniqueViolation(t, i) == \E r \in books : r.id # i /\ r.title = t

\* The unique index makes a writer of title t wait while another open
\* transaction holds an uncommitted row with that title.
LockWait(p, t) == \E q \in Procs \ {p} : pending[q] # NoBook /\ pending[q].title = t

\* Variant of NextVal: the id is one more than the largest id in the table.
NextValMaxPlusOne ==
    LET used == {r.id : r \in books} \cup {pending[q].id : q \in Procs}
    IN  (CHOOSE m \in used : \A n \in used : n <= m) + 1

\* models.py id primary key: the value the sequence hands to an INSERT.
NextVal == nextId

\* models.py created_at server_default=func.now(): the clock read by an
\* INSERT, a logical time that advances with every insert.
Now == nextId

\* Inserts that already passed their pre-check and will draw an id.
Reserved == Cardinality({q \in Procs : pc[q] = "create_checked"})

\* Slot p serves no request.
Idle(p) == pc[p] \in {"idle", "done"}

\* A new request is served by the lowest slot that serves none.
Free(p) == Idle(p) /\ \A q \in Procs : q < p => ~Idle(q)

----------------------------------------------------------------------------
(* get_books: case-insensitive substring filter, offset and limit.         *)

Lower(c) == CASE c = "A" -> "a" [] c = "B" -> "b" [] OTHER -> c

LowerStr(s) == [i \in 1..Len(s) |-> Lower(s[i])]

Contains(s, sub) ==
    \E i \in 0..(Len(s) - Len(sub)) : SubSeq(s, i + 1, i + Len(sub)) = sub

\* Book.title.ilike(f"%{f}%")
ILike(t, f) == Contains(LowerStr(t), LowerStr(f))

\* `if title:` an absent or empty filter selects every row.
Matching(p, f) ==
    IF f = None \/ Val(f) = <<>> THEN Visible(p)
    ELSE {r \in Visible(p) : ILike(r.title, Val(f))}

\* The orders in which the store may return the rows S: the query has no
\* ORDER BY, so any order.
Orders(S) ==
    {s \in [1..Cardinality(S) -> S] : \A i, j \in 1..Cardinality(S) : s[i] = s[j] => i = j}

\* .offset(skip).limit(limit)
Page(s, skip, limit) ==
    IF skip >= Len(s) THEN <<>>
    ELSE SubSeq(s, skip + 1, IF skip + limit < Len(s) THEN skip + limit ELSE Len(s))

----------------------------------------------------------------------------
(* Responses.                                                              *)

\* What a slot keeps of a finished request: the route, the key, the path id
\* and the query; of the body, the titles of a create.
Logged(r) ==
    [r EXCEPT !.description = NULL, !.title = IF r.op = "update" THEN None ELSE @]

\* The request of slot p ends with a response; its session and the objects
\* it loaded are dropped (database.py get_db: db.close()).
Finish(p, r, status, body) ==
    /\ pc' = [pc EXCEPT ![p] = "done"]
    /\ req' = [req EXCEPT ![p] = Logged(r)]
    /\ resp' = [resp EXCEPT ![p] = [status |-> status, body |-> body]]
    /\ book' = [book EXCEPT ![p] = NoBook]

\* The handler of slot p goes on to its next statement holding object b.
Goto(p, r, label, b) ==
    /\ pc' = [pc EXCEPT ![p] = label]
    /\ req' = [req EXCEPT ![p] = r]
    /\ resp' = [resp EXCEPT ![p] = NoResp]
    /\ book' = [book EXCEPT ![p] = b]

AlreadyExists == "Book with this title already exists"
NotFound == "Book not found"

RouteOps == {"create", "list", "get", "update", "delete", "count"}

Init ==
    /\ books = {}
    /\ nextId = 1
    /\ pending = [p \in Procs |-> NoBook]
    /\ pc = [p \in Procs |-> "idle"]
    /\ req = [p \in Procs |-> NoReq]
    /\ book = [p \in Procs |-> NoBook]
    /\ resp = [p \in Procs |-> NoResp]

\* routers/books.py router dependencies=[Depends(verify_api_key)]: a request
\* of any route with a wrong or missing key is answered 401 by the gate.
Unauthorized(p, op, key) ==
    /\ Free(p)
    /\ ~KeyOk(key)
    /\ Finish(p, Request(op, key), 401, "Invalid or missing API key")
    /\ UNCHANGED <<books, nextId, pending>>

----------------------------------------------------------------------------
(* create_book                                                             *)

\* Lines 51-69: gate, body validation, then the title pre-check.
CreateBegin(p, key, t, d) ==
    /\ Free(p)
    /\ KeyOk(key)
    /\ nextId + Reserved <= MaxId
    /\ LET r == [Request("create", key) EXCEPT !.title = Some(t), !.description = d]
       IN  IF ~ValidTitle(t)
           THEN Finish(p, r, 422, "title")
           ELSE IF FindByTitle(p, t) # {}
           THEN Finish(p, r, 400, AlreadyExists)
           ELSE Goto(p, r, "create_checked", NoBook)
    /\ UNCHANGED <<books, nextId, pending>>

\* Lines 71-73: db.add, db.commit (INSERT, COMMIT).  The unique index
\* refuses the INSERT with an IntegrityError no handler catches: 500.
CreateCommit(p) ==
    /\ pc[p] = "create_checked"
    /\ LET t == Val(req[p].title)
           i == NextVal
       IN  /\ ~LockWait(p, t)
           /\ nextId' = nextId + 1
           /\ IF UniqueViolation(t, i)
              THEN /\ Finish(p, req[p], 500, "IntegrityError")
                   /\ UNCHANGED books
              ELSE /\ books' = books \cup {Row(i, t, req[p].description, Now)}
                   /\ Goto(p, req[p], "create_committed", [id |-> i])
    /\ UNCHANGED pending

\* Lines 74-75: db.refresh re-reads the row by its id.
CreateRefresh(p) ==
    /\ pc[p] = "create_committed"
    /\ LET found == FindById(p, book[p].id)
       IN  IF found = {}
           THEN Finish(p, req[p], 500, "InvalidRequestError")
           ELSE Finish(p, req[p], 201, Val(found))
    /\ UNCHANGED <<books, nextId, pending>>

----------------------------------------------------------------------------
(* get_books, get_book, get_book_count                                     *)

\* Lines 78-104.
GetBooks(p, key, skip, limit, f) ==
    /\ Free(p)
    /\ KeyOk(key)
    /\ LET r == [Request("list", key) EXCEPT !.skip = skip, !.limit = limit, !.filter = f]
       IN  IF ~ValidPage(skip, limit)
           THEN Finish(p, r, 422, "query")
           ELSE \E s \in Orders(Matching(p, f)) : Finish(p, r, 200, Page(s, skip, limit))
    /\ UNCHANGED <<books, nextId, pending>>

\* Lines 107-125.
GetBook(p, key, i) ==
    /\ Free(p)
    /\ KeyOk(key)
    /\ LET r == [Request("get", key) EXCEPT !.id = i]
           found == FindById(p, i)
       IN  IF found = {}
           THEN Finish(p, r, 404, NotFound)
           ELSE Finish(p, r, 200, Val(found))
    /\ UNCHANGED <<books, nextId, pending>>

\* Lines 186-199.
GetBookCount(p, key) ==
    /\ Free(p)
    /\ KeyOk(key)
    /\ Finish(p, Request("count", key), 200, Cardinality(Visible(p)))
    /\ UNCHANGED <<books, nextId, pending>>

----------------------------------------------------------------------------
(* update_book                                                             *)

\* Variant of UpdateFields: description is assigned unconditionally.
UpdateFieldsClear(b, r) ==
    [b EXCEPT !.title = IF r.title # None THEN Val(r.title) ELSE @,
              !.description = r.description]

\* Lines 155-158: the loaded object b after the assignments of request r;
\* a field that is None in the request is not assigned.
UpdateFields(b, r) ==
    [b EXCEPT !.title = IF r.title # None THEN Val(r.title) ELSE @,
              !.description = IF r.description # NULL THEN r.description ELSE @]

\* The UPDATE the session flushes for object obj loaded as `loaded`: it sets
\* the columns whose value differs from the loaded one, on the stored row.
FlushUpdate(row, loaded, obj) ==
    [row EXCEPT !.title = IF obj.title # loaded.title THEN obj.title ELSE @,
                !.description = IF obj.description # loaded.description
                                THEN obj.description ELSE @]

\* Lines 128-146: gate, body validation, then the lookup by id.
UpdateBegin(p, key, i, ot, d) ==
    /\ Free(p)
    /\ KeyOk(key)
    /\ LET r == [Request("update", key) EXCEPT !.id = i, !.title = ot, !.description = d]
           found == FindById(p, i)
       IN  IF ot # None /\ ~ValidTitle(Val(ot))
           THEN Finish(p, r, 422, "title")
           ELSE IF found = {}
           THEN Finish(p, r, 404, NotFound)
           ELSE Goto(p, r, "update_loaded", Val(found))
    /\ UNCHANGED <<books, nextId, pending>>

\* Lines 148-152: the title pre-check, run only for a new title.
UpdateCheck(p) ==
    /\ pc[p] = "update_loaded"
    /\ LET r == req[p]
       IN  IF r.title # None /\ Val(r.title) # <<>> /\ Val(r.title) # book[p].title
              /\ FindByTitle(p, Val(r.title)) # {}
           THEN Finish(p, r, 400, AlreadyExists)
           ELSE Goto(p, r, "update_checked", book[p])
    /\ UNCHANGED <<books, nextId, pending>>

\* Lines 154-160: the assignments and db.commit (UPDATE, COMMIT).  An UPDATE
\* that matches no row raises StaleDataError, one the unique index refuses
\* raises IntegrityError; no handler catches either: 500.
UpdateCommit(p) ==
    /\ pc[p] = "update_checked"
    /\ LET obj == UpdateFields(book[p], req[p])
           rows == {r \in books : r.id = book[p].id}
       IN  IF obj = book[p]
           THEN /\ Goto(p, req[p], "update_committed", obj)
                /\ UNCHANGED books
           ELSE /\ ~(obj.title # book[p].title /\ LockWait(p, obj.title))
                /\ IF rows = {}
                   THEN /\ Finish(p, req[p], 500, "StaleDataError")
                        /\ UNCHANGED books
                   ELSE IF obj.title # book[p].title /\ UniqueViolation(obj.title, obj.id)
                   THEN /\ Finish(p, req[p], 500, "IntegrityError")
                        /\ UNCHANGED books
                   ELSE /\ books' = (books \ rows) \cup
                                    {FlushUpdate(Val(rows), book[p], obj)}
                        /\ Goto(p, req[p], "update_committed", obj)
    /\ UNCHANGED <<nextId, pending>>

\* Lines 161-162: db.refresh re-reads the row by its id.
UpdateRefresh(p) ==
    /\ pc[p] = "update_committed"
    /\ LET found == FindById(p, book[p].id)
       IN  IF found = {}
           THEN Finish(p, req[p], 500, "InvalidRequestError")
           ELSE Finish(p, req[p], 200, Val(found))
    /\ UNCHANGED <<books, nextId, pending>>

----------------------------------------------------------------------------
(* delete_book                                                             *)

\* Lines 165-179: gate, then the lookup by id.
DeleteBegin(p, key, i) ==
    /\ Free(p)
    /\ KeyOk(key)
    /\ LET r == [Request("delete", key) EXCEPT !.id = i]
           found == FindById(p, i)
       IN  IF found = {}
           THEN Finish(p, r, 404, NotFound)
           ELSE Goto(p, r, "delete_loaded", Val(found))
    /\ UNCHANGED <<books, nextId, pending>>

\* Lines 181-183: db.delete, db.commit (DELETE, COMMIT).  A DELETE that
\* matches no row is only warned about by the ORM.
DeleteCommit(p) ==
    /\ pc[p] = "delete_loaded"
    /\ books' = {r \in books : r.id # book[p].id}
    /\ Finish(p, req[p], 204, NULL)
    /\ UNCHANGED <<nextId, pending>>

----------------------------------------------------------------------------
(* create_and_update_book_transaction: a function called with a session,   *)
(* behind no route and no gate.  A returned object is recorded as status   *)
(* 200, a raised exception as status 500.                                  *)

\* Variant of Rollback: the except block only re-raises.
RollbackMissing(p) == pending

\* db.rollback(): the open transaction of session p is undone.
Rollback(p) == [pending EXCEPT ![p] = NoBook]

\* Lines 37-39: db.add, db.flush (INSERT in the open transaction).
TxnFlush(p, t, d, nt) ==
    /\ Free(p)
    /\ nextId + Reserved <= MaxId
    /\ ~LockWait(p, t)
    /\ nextId' = nextId + 1
    /\ LET r == [Request("txn", NULL) EXCEPT
                    !.title = Some(t), !.description = d, !.new_title = Some(nt)]
           i == NextVal
       IN  IF UniqueViolation(t, i)
           THEN /\ Goto(p, r, "txn_except", NoBook)
                /\ UNCHANGED pending
           ELSE /\ Goto(p, r, "txn_flushed", [id |-> i])
                /\ pending' = [pending EXCEPT ![p] = Row(i, t, d, Now)]
    /\ UNCHANGED books

\* Lines 42-43: the title is rewritten and db.commit runs (UPDATE, COMMIT).
TxnCommit(p) ==
    /\ pc[p] = "txn_flushed"
    /\ LET nt == Val(req[p].new_title)
           changed == nt # pending[p].title
       IN  /\ ~(changed /\ LockWait(p, nt))
           /\ IF changed /\ UniqueViolation(nt, pending[p].id)
              THEN /\ Goto(p, req[p], "txn_except", book[p])
                   /\ UNCHANGED <<books, pending>>
              ELSE /\ books' = books \cup {[pending[p] EXCEPT !.title = nt]}
                   /\ pending' = [pending EXCEPT ![p] = NoBook]
                   /\ Goto(p, req[p], "txn_committed", book[p])
    /\ UNCHANGED nextId

\* Two open transactions each waiting for the title the other holds: the
\* store ends the wait of one with a deadlock error.
TxnDeadlock(p) ==
    /\ pc[p] = "txn_flushed"
    /\ \E q \in Procs \ {p} :
          /\ pc[q] = "txn_flushed"
          /\ pending[q].title = Val(req[p].new_title)
          /\ pending[p].title = Val(req[q].new_title)
    /\ Goto(p, req[p], "txn_except", book[p])
    /\ UNCHANGED <<books, nextId, pending>>

\* Lines 44-45: db.refresh re-reads the row by its id and returns it.
TxnRefresh(p) ==
    /\ pc[p] = "txn_committed"
    /\ LET found == FindById(p, book[p].id)
       IN  IF found = {}
           THEN Goto(p, req[p], "txn_except", book[p])
           ELSE Finish(p, req[p], 200, Val(found))
    /\ UNCHANGED <<books, nextId, pending>>

\* Lines 46-48: db.rollback(), then the exception is raised to the caller.
TxnExcept(p) ==
    /\ pc[p] = "txn_except"
    /\ pending' = Rollback(p)
    /\ Finish(p, req[p], 500, "Exception")
    /\ UNCHANGED <<books, nextId>>

----------------------------------------------------------------------------
(* Inputs of the requests.                                                 *)

Skips == {MinSkip - 1, MinSkip, MinSkip + 1}
Limits == {MinLimit - 1, MinLimit, MaxLimit, MaxLimit + 1}
Filters == {None, Some(<<>>), Some(<<"A">>), Some(<<"b">>)}
OptTitles == {None} \cup {Some(t) : t \in Titles}

\* Concurrent requests of every operation, all with the configured key.
Next ==
    \E p \in Procs :
        \/ \E t \in Titles, d \in Descriptions : CreateBegin(p, ApiKey, t, d)
        \/ CreateCommit(p)
        \/ CreateRefresh(p)
        \/ GetBooks(p, ApiKey, MinSkip, MaxLimit, None)
        \/ \E i \in Ids : GetBook(p, ApiKey, i)
        \/ GetBookCount(p, ApiKey)
        \/ \E i \in Ids, ot \in OptTitles, d \in NewDescriptions :
              UpdateBegin(p, ApiKey, i, ot, d)
        \/ UpdateCheck(p)
        \/ UpdateCommit(p)
        \/ UpdateRefresh(p)
        \/ \E i \in Ids : DeleteBegin(p, ApiKey, i)
        \/ DeleteCommit(p)
        \/ \E t \in Titles, d \in Descriptions, nt \in Titles : TxnFlush(p, t, d, nt)
        \/ TxnCommit(p)
        \/ TxnDeadlock(p)
        \/ TxnRefresh(p)
        \/ TxnExcept(p)

Spec == Init /\ [][Next]_vars

\* The six routes served one request at a time, with any key, page and filter.
NextGate ==
    \/ \E op \in RouteOps, key \in Keys : Unauthorized(1, op, key)
    \/ \E key \in Keys, t \in Titles, d \in AllDescriptions : CreateBegin(1, key, t, d)
    \/ CreateCommit(1)
    \/ CreateRefresh(1)
    \/ \E key \in Keys, skip \in Skips, limit \in Limits, f \in Filters :
          GetBooks(1, key, skip, limit, f)
    \/ \E key \in Keys, i \in Ids : GetBook(1, key, i)
    \/ \E key \in Keys : GetBookCount(1, key)
    \/ \E key \in Keys, i \in Ids, ot \in OptTitles, d \in NewDescriptions :
          UpdateBegin(1, key, i, ot, d)
    \/ UpdateCheck(1)
    \/ UpdateCommit(1)
    \/ UpdateRefresh(1)
    \/ \E key \in Keys, i \in Ids : DeleteBegin(1, key, i)
    \/ DeleteCommit(1)

SpecGate == Init /\ [][NextGate]_vars

\* Concurrent creates with titles of every length class.
NextValidate ==
    \E p \in Procs :
        \/ \E t \in AllTitles, d \in AllDescriptions : CreateBegin(p, ApiKey, t, d)
        \/ CreateCommit(p)
        \/ CreateRefresh(p)

SpecValidate == Init /\ [][NextValidate]_vars

----------------------------------------------------------------------------
(* Properties.                                                             *)

\* Slot p ends a request in this step.
Finished(p) ==
    /\ pc'[p] = "done"
    /\ <<pc[p], req[p], resp[p]>> # <<pc'[p], req'[p], resp'[p]>>

\* C1: in every reachable state no two stored records have the same title
\* (exact, case-sensitive comparison).
C1_TitleUnique == \A r1, r2 \in books : r1.title = r2.title => r1 = r2

\* Two records are stored and a racing writer was refused by the unique index.
C1_Witness ==
    /\ Cardinality(books) = 2
    /\ \E p \in Procs :
          pc[p] = "done" /\ resp[p].status = 500 /\ resp[p].body = "IntegrityError"

\* C2: a Create whose title is held by a stored record when its INSERT runs,
\* the loser of two Creates with the same title, answers 400 "already exists"
\* and stores nothing, also when its pre-check ran before the winner's commit.
C2_DuplicateCreateAnswers400 ==
    [][\A p \in Procs :
          (/\ pc[p] = "create_checked"
           /\ pc'[p] # "create_checked"
           /\ \E r \in books : r.title = Val(req[p].title))
          => (/\ pc'[p] = "done"
              /\ resp'[p].status = 400
              /\ resp'[p].body = AlreadyExists
              /\ books' = books)]_vars

\* C3: when create_and_update_book_transaction fails, at the insert, at the
\* title rewrite or later, no step of the call up to the failure changed the
\* stored records, the exception reaches the caller only with the
\* transaction rolled back, and no record of the call is stored.
C3_FailedTxnLeavesNothing ==
    /\ [](\A p \in Procs :
            (pc[p] = "done" /\ req[p].op = "txn" /\ resp[p].status = 500)
            => pending[p] = NoBook)
    /\ [][\A p \in Procs :
            /\ (/\ pc'[p] \in {"txn_flushed", "txn_except"}
                /\ pc[p] \notin {pc'[p], "txn_committed"})
               => books' = books
            /\ (pc[p] = "txn_except" /\ pc'[p] = "done")
               => (/\ resp'[p].status = 500
                   /\ pending'[p] = NoBook
                   /\ books' = books
                   /\ \A r \in books' : r.id # book[p].id)]_vars

\* A transaction failed at the rewrite: its new title is held by a stored
\* record, its first title by none.
C3_Witness ==
    \E p \in Procs :
        /\ pc[p] = "done"
        /\ req[p].op = "txn"
        /\ resp[p].status = 500
        /\ req[p].new_title # req[p].title
        /\ \E r \in books : r.title = Val(req[p].new_title)
        /\ \A r \in books : r.title # Val(req[p].title)

\* C4: the commit of create_and_update_book_transaction stores one record,
\* with the new title and the given description, and until then no read of
\* another request (get, list, count, title pre-check) returns its row.
C4_TxnIntermediateInvisible ==
    /\ [](\A p, q \in Procs :
            (pending[p] # NoBook /\ pc[q] = "done" /\ resp[q].status = 200)
            => (/\ req[q].op = "get" => resp[q].body.id # pending[p].id
                /\ req[q].op = "list" =>
                      \A k \in 1..Len(resp[q].body) : resp[q].body[k].id # pending[p].id))
    /\ [][\A p \in Procs :
            /\ (pc[p] = "txn_flushed" /\ pc'[p] = "txn_committed")
               => books' = books \cup
                     {Row(pending[p].id, Val(req[p].new_title), req[p].description,
                          pending[p].created_at)}
            /\ (Finished(p) /\ req'[p].op = "count")
               => resp'[p].body = Cardinality(books)
            /\ (Finished(p) /\ req'[p].op = "create" /\ resp'[p].status = 400)
               => \E r \in books : r.title = Val(req'[p].title)
            /\ (pc[p] = "update_loaded" /\ pc'[p] = "done" /\ resp'[p].status = 400)
               => \E r \in books : r.title = Val(req[p].title)]_vars

\* A get of the id of a transaction that is flushed and not committed was
\* answered 404.
C4_Witness ==
    \E p, q \in Procs :
        /\ pc[p] = "txn_flushed"
        /\ req[p].new_title # req[p].title
        /\ pc[q] = "done"
        /\ req[q].op = "get"
        /\ req[q].id = pending[p].id
        /\ resp[q].status = 404

\* C5: a validated Update that ends while its id has no stored record
\* answers 404 and changes no record, whatever was interleaved with it.
C5_UpdateOfMissingIdAnswers404 ==
    [][\A p \in Procs :
          (/\ Finished(p)
           /\ req'[p].op = "update"
           /\ resp'[p].status # 422
           /\ \A r \in books : r.id # req'[p].id)
          => (resp'[p].status = 404 /\ books' = books)]_vars

\* The title with the surrounding whitespace removed.
RECURSIVE LStrip(_)
LStrip(t) == IF t # <<>> /\ Head(t) = " " THEN LStrip(Tail(t)) ELSE t

RECURSIVE RStrip(_)
RStrip(t) ==
    IF t # <<>> /\ t[Len(t)] = " " THEN RStrip(SubSeq(t, 1, Len(t) - 1)) ELSE t

Trimmed(t) == RStrip(LStrip(t))

InRange(n) == n >= MinTitleLen /\ n <= MaxTitleLen

\* C6 as stated: a Create whose title, trimmed of surrounding whitespace, is
\* not 1 to 200 characters long is rejected with 422, and no stored title is
\* outside that range.
C6_TrimmedLengthDecides ==
    /\ \A p \in Procs :
          (req[p].op = "create" /\ ~InRange(Len(Trimmed(Val(req[p].title)))))
          => (pc[p] = "done" /\ resp[p].status = 422)
    /\ \A r \in books : InRange(Len(Trimmed(r.title)))

\* C6 as amended: a Create is rejected with 422 exactly when the length of
\* its title as sent is not 1 to 200 characters, and no stored title is
\* outside that range.
C6_LengthDecides ==
    /\ \A p \in Procs :
          req[p].op = "create"
          => IF InRange(Len(Val(req[p].title)))
             THEN resp[p].status # 422
             ELSE pc[p] = "done" /\ resp[p].status = 422
    /\ \A r \in books : InRange(Len(r.title))

\* A title of 201 characters was rejected and a whitespace-only title of one
\* character is stored.
C6_Witness ==
    /\ \E p \in Procs :
          /\ pc[p] = "done"
          /\ req[p].op = "create"
          /\ req[p].title = Some(Long201)
          /\ resp[p].status = 422
    /\ \E r \in books : r.title = Blank

\* The rows S in insertion order, which is the order of their ids.
ById(S) ==
    CHOOSE s \in Orders(S) : \A i, j \in 1..Cardinality(S) : i < j => s[i].id < s[j].id

\* C7: with no write between, a List answers the records matching its filter
\* taken in insertion order, from position skip+1 to position skip+limit.
C7_ListInInsertionOrder ==
    [][\A p \in Procs :
          (Finished(p) /\ req'[p].op = "list" /\ resp'[p].status = 200)
          => resp'[p].body =
                Page(ById(Matching(p, req'[p].filter)), req'[p].skip, req'[p].limit)]_vars

\* C8: the commit of an Update changes, of the record of its id, only title
\* and description and each only to a non-null value of the request; id and
\* created_at of that record and every other record are unchanged.
C8_UpdateFrame ==
    [][\A p \in Procs :
          (pc[p] = "update_checked" /\ pc'[p] # "update_checked")
          => /\ \A r \in books : r.id # req[p].id => r \in books'
             /\ \A n \in books' : n.id # req[p].id => n \in books
             /\ \A r \in books : r.id = req[p].id =>
                   \E n \in books' :
                      /\ n.id = r.id
                      /\ n.created_at = r.created_at
                      /\ n.title # r.title => req[p].title = Some(n.title)
                      /\ n.description # r.description =>
                            (req[p].description # NULL /\ req[p].description = n.description)
             /\ Cardinality(books') = Cardinality(books)]_vars

\* An Update with a new title and no description is committed: the record
\* has the new title and the description it was created with, beside
\* another record.
C8_Witness ==
    \E p \in Procs :
        /\ pc[p] = "update_committed"
        /\ req[p].title # None
        /\ req[p].description = NULL
        /\ Cardinality(books) = 2
        /\ \E r \in books :
              r.id = req[p].id /\ r.title = Val(req[p].title) /\ r.description = "d"

\* An id the sequence has handed out that has no stored and no uncommitted row.
Gone(i) ==
    /\ i < nextId
    /\ \A r \in books : r.id # i
    /\ \A q \in Procs : pending[q].id # i

\* Gone(i) in the state after the step.
GoneNext(i) ==
    /\ i < nextId'
    /\ \A r \in books' : r.id # i
    /\ \A q \in Procs : pending'[q].id # i

\* C9: a Delete answered 204 leaves no record of its id, an id without a
\* record never gets one again, and a Get answers 404 exactly when its id has
\* no record: after the 204 every Get of the id answers 404.
C9_NoResurrection ==
    /\ [](\A r \in books : r.id < nextId)
    /\ [][/\ \A i \in Ids : Gone(i) => GoneNext(i)
          /\ \A p \in Procs :
                /\ (Finished(p) /\ req'[p].op = "delete" /\ resp'[p].status = 204)
                   => GoneNext(req'[p].id)
                /\ (Finished(p) /\ req'[p].op = "get")
                   => IF Gone(req'[p].id) THEN resp'[p].status = 404
                      ELSE resp'[p].status \in {200, 404}]_vars

\* A Delete of an id was answered 204, a record was created after it and a
\* Get of the id was answered 404.
C9_Witness ==
    \E p, q \in Procs :
        /\ pc[p] = "done" /\ req[p].op = "delete" /\ resp[p].status = 204
        /\ pc[q] = "done" /\ req[q].op = "get" /\ resp[q].status = 404
        /\ req[q].id = req[p].id
        /\ \E r \in books : r.id > req[p].id

\* C10: a request of any of the six routes whose key is missing or wrong is
\* answered 401 in one step that leaves the store as it was, and no handler
\* ever runs for such a request.
C10_GateBeforeHandler ==
    /\ [](\A p \in Procs :
            (req[p].op \in RouteOps /\ req[p].key # ApiKey)
            => (pc[p] = "done" /\ resp[p].status = 401))
    /\ [][\A p \in Procs :
            (Finished(p) /\ req'[p].op \in RouteOps /\ req'[p].key # ApiKey)
            => (resp'[p].status = 401 /\ UNCHANGED <<books, nextId, pending>>)]_vars

\* A Delete without a key was answered 401 while a record is stored.
C10_Witness ==
    \E p \in Procs :
        /\ pc[p] = "done"
        /\ req[p].op = "delete"
        /\ req[p].key = NULL
        /\ resp[p].status = 401
        /\ \E r \in books : r.id = 1

====
